---- MODULE Spec2Model ----
(***************************************************************************)
(* Model of to_webdav.py: a backup pipeline that zips the configured       *)
(* source items, encrypts the zip with openssl, uploads the encrypted file *)
(* to every configured WebDAV server and removes the local temporary       *)
(* files.  One run of main() is modelled, statement by statement where the *)
(* statement can fail.                                                     *)
(***************************************************************************)
EXTENDS Integers, Sequences, FiniteSets, TLC

\* ---------------------------------------------------------------- bounds
MaxItems == 2
MaxServers == 2
MaxClock == 4

\* Granularity of the modelled clock: `now' counts half seconds, and a
\* month of the model lasts two seconds.
TicksPerSecond == 2
SecondsPerMonth == 2

VARIABLES
  SOURCE_ITEMS,     \* configuration: sequence of item kinds
  WEBDAV_SERVERS,   \* configuration: sequence of server configurations
  now,              \* the wall clock, in ticks
  timestamp,        \* main: <<>> until line 95 ran, then <<second>>
  remote_dir_name,  \* main: <<>> until line 96 ran, then <<month>>
  pc,               \* position of main()
  zf,               \* create_unencrypted_zip: state of the ZipFile object
  item_idx,         \* create_unencrypted_zip: index of the next source item
  entries,          \* indices of the source items written to the zip
  disk,             \* paths that exist in the local working directory
  remote,           \* per server: the remote directory and the files in it
  server_idx,       \* main: index of the server of the current loop turn
  upc,              \* position inside upload_to_webdav
  cpc,              \* position inside the final cleanup block
  archResult,       \* <<>> or <<value returned by create_unencrypted_zip>>
  encResult,        \* <<>> or <<value returned by encrypt_with_openssl>>
  encInvoked,       \* history: number of calls of encrypt_with_openssl
  attempts,         \* history: one record per call of upload_to_webdav
  outcomes,         \* history: one outcome per returned upload_to_webdav
  delLog,           \* history: one record per os.remove issued by main
  stages,           \* history: stages of the pipeline entered so far
  exitStatus,       \* <<>> while running, then <<process exit status>>
  runs,             \* two runs of the program in one working directory
  cwd,              \* the files of that directory, each with the run that wrote it
  clobbered,        \* history: a run overwrote or removed a file of the other
  zsrc,             \* create_unencrypted_zip: source_items, as paths
  zpos,             \* create_unencrypted_zip: index of the current source item
  zwalking,         \* create_unencrypted_zip: inside the os.walk loop of line 35
  zwalk,            \* create_unencrypted_zip: files os.walk has yet to yield
  namelist          \* the entries written to the zip, in order

vars == <<SOURCE_ITEMS, WEBDAV_SERVERS, now, timestamp, remote_dir_name, pc,
          zf, item_idx, entries, disk, remote, server_idx, upc, cpc,
          archResult, encResult, encInvoked, attempts, outcomes, delLog,
          stages, exitStatus, runs, cwd, clobbered, zsrc, zpos, zwalking,
          zwalk, namelist>>

\* ------------------------------------------------------------ pure parts

ItemKinds == {"file", "dir", "missing"}
ServerKinds == {"ok", "malformed"}

RECURSIVE SeqsUpTo(_, _)
SeqsUpTo(S, n) ==
  IF n = 0 THEN {<<>>}
  ELSE LET shorter == SeqsUpTo(S, n - 1)
       IN  shorter \cup {Append(s, x) : s \in {t \in shorter : Len(t) = n - 1}, x \in S}

\* a timestamp format without the seconds, '%Y%m%d_%H%M'
strftime_minutes(t) == (t \div TicksPerSecond) \div 2

\* datetime.now().strftime('%Y%m%d_%H%M%S'): the clock truncated to seconds
strftime_seconds(t) == t \div TicksPerSecond

\* datetime.now().strftime('%Y-%m'): the clock truncated to months
strftime_month(t) == t \div (TicksPerSecond * SecondsPerMonth)

\* f'backup_{timestamp}.zip' (line 99)
zip_name(ts) == <<"backup_">> \o ts \o <<".zip">>

\* f'{zip_filename}.enc' (line 100)
enc_name(z) == z \o <<".enc">>

\* f'backup_{timestamp}.zip'
zip_filename == zip_name(timestamp)

\* f'{zip_filename}.enc'
encrypted_filename == enc_name(zip_filename)

\* a main that hands the plaintext zip to upload_to_webdav
upload_argument_plain == zip_filename

\* the local file main hands to upload_to_webdav (line 113)
upload_argument == encrypted_filename

\* os.path.join(full_remote_dir, os.path.basename(local_file))
remote_path(local_file) == <<remote_dir_name, local_file>>

\* exit status of the interpreter: 0 when main() returns (it returns None on
\* every path), 1 when an exception leaves main()
StatusReturned == <<0>>
StatusUncaught == <<1>>

Terminal == {"Done", "Aborted", "Crashed"}

\* the runs of the two-run model
Runs == {1, 2}

\* ------------------------------------------------------------------ Init

PipelineInit ==
  /\ SOURCE_ITEMS \in SeqsUpTo(ItemKinds, MaxItems)
  /\ WEBDAV_SERVERS \in SeqsUpTo(ServerKinds, MaxServers)
  /\ now \in 0..MaxClock
  /\ timestamp = <<>>
  /\ remote_dir_name = <<>>
  /\ pc = "Start"
  /\ zf = "unopened"
  /\ item_idx = 1
  /\ entries = {}
  /\ disk = {}
  /\ remote \in [1..Len(WEBDAV_SERVERS) -> [dir : BOOLEAN, files : {{}}, mkdirs : {0}, puts : {0}, raced : {FALSE}]]
  /\ server_idx = 1
  /\ upc = "idle"
  /\ cpc = "zip"
  /\ archResult = <<>>
  /\ encResult = <<>>
  /\ encInvoked = 0
  /\ attempts = <<>>
  /\ outcomes = <<>>
  /\ delLog = <<>>
  /\ stages = <<"Start">>
  /\ exitStatus = <<>>

\* the two-run model at rest
RunsIdle ==
  /\ runs = [r \in Runs |-> [rpc |-> "Start", tick |-> 0, ts |-> <<>>]]
  /\ cwd = {}
  /\ clobbered = FALSE

\* the model of the entry names at rest
NamesIdle ==
  /\ zsrc = <<>>
  /\ zpos = 1
  /\ zwalking = FALSE
  /\ zwalk = <<>>
  /\ namelist = <<>>

Init == PipelineInit /\ RunsIdle /\ NamesIdle

runVars == <<runs, cwd, clobbered>>
nameVars == <<zsrc, zpos, zwalking, zwalk, namelist>>

\* the variables of the two-run model and of the model of the entry names,
\* which the single-run model of main leaves alone
aside == <<runVars, nameVars>>

config == <<SOURCE_ITEMS, WEBDAV_SERVERS>>
clockVars == <<now, timestamp, remote_dir_name>>
zipVars == <<zf, item_idx, entries>>
upVars == <<remote, server_idx, upc, attempts, outcomes>>

\* ----------------------------------------------------------- environment

\* the wall clock advances
Tick ==
  /\ now < MaxClock
  /\ pc \in {"Start", "Named"}
  /\ now' = now + 1
  /\ UNCHANGED <<aside, config, timestamp, remote_dir_name, pc, zipVars, disk, upVars,
                 cpc, archResult, encResult, encInvoked, delLog, stages,
                 exitStatus>>

\* ------------------------------------------------------ main, lines 95-100

main_timestamp ==
  /\ pc = "Start"
  /\ timestamp' = <<strftime_seconds(now)>>
  /\ pc' = "Named"
  /\ UNCHANGED <<aside, config, now, remote_dir_name, zipVars, disk, upVars, cpc,
                 archResult, encResult, encInvoked, delLog, stages, exitStatus>>

main_remote_dir_name ==
  /\ pc = "Named"
  /\ remote_dir_name' = <<strftime_month(now)>>
  /\ pc' = "Archiving"
  /\ stages' = Append(stages, "Archiving")
  /\ UNCHANGED <<aside, config, now, timestamp, zipVars, disk, upVars, cpc,
                 archResult, encResult, encInvoked, delLog, exitStatus>>

\* ------------------------------------ create_unencrypted_zip, lines 25-45

\* the value create_unencrypted_zip returns when the with-block is left by
\* an exception (lines 43-45)
zip_error_result == FALSE

\* line 29: zipfile.ZipFile(archive_name, 'w') creates the container file
zip_open ==
  /\ pc = "Archiving" /\ zf = "unopened"
  /\ zf' = "open"
  /\ disk' = disk \cup {zip_filename}
  /\ UNCHANGED <<aside, config, clockVars, pc, item_idx, entries, upVars, cpc,
                 archResult, encResult, encInvoked, delLog, stages, exitStatus>>

\* line 29 raises (the file cannot be created): lines 43-45 return False
zip_open_error ==
  /\ pc = "Archiving" /\ zf = "unopened"
  /\ archResult' = <<zip_error_result>>
  /\ pc' = "ArchiveReturned"
  /\ UNCHANGED <<aside, config, clockVars, zipVars, disk, upVars, cpc, encResult,
                 encInvoked, delLog, stages, exitStatus>>

\* lines 31-33: a regular file is written under its base name
zip_add_file ==
  /\ pc = "Archiving" /\ zf = "open"
  /\ item_idx <= Len(SOURCE_ITEMS)
  /\ SOURCE_ITEMS[item_idx] = "file"
  /\ entries' = entries \cup {item_idx}
  /\ item_idx' = item_idx + 1
  /\ UNCHANGED <<aside, config, clockVars, pc, zf, disk, upVars, cpc, archResult,
                 encResult, encInvoked, delLog, stages, exitStatus>>

\* lines 34-40: every file under a directory is written
zip_add_dir ==
  /\ pc = "Archiving" /\ zf = "open"
  /\ item_idx <= Len(SOURCE_ITEMS)
  /\ SOURCE_ITEMS[item_idx] = "dir"
  /\ entries' = entries \cup {item_idx}
  /\ item_idx' = item_idx + 1
  /\ UNCHANGED <<aside, config, clockVars, pc, zf, disk, upVars, cpc, archResult,
                 encResult, encInvoked, delLog, stages, exitStatus>>

\* an archiver with an else branch that raises for a missing item
zip_skip_item_rejects ==
  /\ pc = "Archiving" /\ zf = "open"
  /\ item_idx <= Len(SOURCE_ITEMS)
  /\ SOURCE_ITEMS[item_idx] = "missing"
  /\ zf' = "closed"
  /\ archResult' = <<FALSE>>
  /\ pc' = "ArchiveReturned"
  /\ UNCHANGED <<aside, config, clockVars, item_idx, entries, disk, upVars, cpc,
                 encResult, encInvoked, delLog, stages, exitStatus>>

\* lines 31/34: neither isfile nor isdir holds, the item is passed over
zip_skip_item ==
  /\ pc = "Archiving" /\ zf = "open"
  /\ item_idx <= Len(SOURCE_ITEMS)
  /\ SOURCE_ITEMS[item_idx] = "missing"
  /\ item_idx' = item_idx + 1
  /\ UNCHANGED <<aside, config, clockVars, pc, zf, entries, disk, upVars, cpc,
                 archResult, encResult, encInvoked, delLog, stages, exitStatus>>

\* zf.write raises at line 32 or 39 (the source cannot be read, the disk is
\* full): the with-block closes the container, which stays on disk, and
\* lines 43-45 return False
zip_write_error ==
  /\ pc = "Archiving" /\ zf = "open"
  /\ item_idx <= Len(SOURCE_ITEMS)
  /\ SOURCE_ITEMS[item_idx] \in {"file", "dir"}
  /\ zf' = "closed"
  /\ archResult' = <<zip_error_result>>
  /\ pc' = "ArchiveReturned"
  /\ UNCHANGED <<aside, config, clockVars, item_idx, entries, disk, upVars, cpc,
                 encResult, encInvoked, delLog, stages, exitStatus>>

\* the loop of line 30 is exhausted: the with-block closes the container and
\* lines 41-42 return True
zip_close ==
  /\ pc = "Archiving" /\ zf = "open"
  /\ item_idx > Len(SOURCE_ITEMS)
  /\ zf' = "closed"
  /\ archResult' = <<TRUE>>
  /\ pc' = "ArchiveReturned"
  /\ UNCHANGED <<aside, config, clockVars, item_idx, entries, disk, upVars, cpc,
                 encResult, encInvoked, delLog, stages, exitStatus>>

create_unencrypted_zip ==
  \/ zip_open
  \/ zip_open_error
  \/ zip_add_file
  \/ zip_add_dir
  \/ zip_skip_item
  \/ zip_write_error
  \/ zip_close

\* ------------------------------------------------- main, lines 103-104

\* a main that ignores the result of create_unencrypted_zip
main_after_zip_failure_ignored == [next |-> "Encrypting", status |-> StatusReturned]

\* what main does after a failed create_unencrypted_zip: a bare return
main_after_zip_failure == [next |-> "Aborted", status |-> StatusReturned]

main_103 ==
  /\ pc = "ArchiveReturned"
  /\ IF archResult = <<TRUE>>
       THEN /\ pc' = "Encrypting"
            /\ stages' = Append(stages, "Encrypting")
            /\ exitStatus' = exitStatus
       ELSE /\ pc' = main_after_zip_failure.next
            /\ stages' = Append(stages, main_after_zip_failure.next)
            /\ exitStatus' = IF main_after_zip_failure.next \in Terminal
                               THEN main_after_zip_failure.status
                               ELSE exitStatus
  /\ UNCHANGED <<aside, config, clockVars, zipVars, disk, upVars, cpc, archResult,
                 encResult, encInvoked, delLog>>

\* ------------------------------------- encrypt_with_openssl, lines 47-69

\* an encryptor that replaces its input by the encrypted file
encrypt_ok_moves ==
  /\ pc = "Encrypting"
  /\ encInvoked' = encInvoked + 1
  /\ disk' = (disk \ {zip_filename}) \cup {encrypted_filename}
  /\ encResult' = <<TRUE>>
  /\ pc' = "EncryptReturned"
  /\ UNCHANGED <<aside, config, clockVars, zipVars, upVars, cpc, archResult, delLog,
                 stages, exitStatus>>

\* line 59 succeeds: openssl wrote the output file; lines 60-61 return True
encrypt_ok ==
  /\ pc = "Encrypting"
  /\ encInvoked' = encInvoked + 1
  /\ disk' = disk \cup {encrypted_filename}
  /\ encResult' = <<TRUE>>
  /\ pc' = "EncryptReturned"
  /\ UNCHANGED <<aside, config, clockVars, zipVars, upVars, cpc, archResult, delLog,
                 stages, exitStatus>>

\* lines 62-64: the openssl binary is not found, nothing is written
encrypt_tool_missing ==
  /\ pc = "Encrypting"
  /\ encInvoked' = encInvoked + 1
  /\ encResult' = <<FALSE>>
  /\ pc' = "EncryptReturned"
  /\ UNCHANGED <<aside, config, clockVars, zipVars, disk, upVars, cpc, archResult,
                 delLog, stages, exitStatus>>

\* lines 65-69: openssl exits non-zero; it may or may not have created its
\* output file before failing
encrypt_cipher_error ==
  /\ pc = "Encrypting"
  /\ encInvoked' = encInvoked + 1
  /\ \E wrote \in BOOLEAN :
       disk' = IF wrote THEN disk \cup {encrypted_filename} ELSE disk
  /\ encResult' = <<FALSE>>
  /\ pc' = "EncryptReturned"
  /\ UNCHANGED <<aside, config, clockVars, zipVars, upVars, cpc, archResult, delLog,
                 stages, exitStatus>>

\* line 59 raises an exception that is neither FileNotFoundError nor
\* CalledProcessError (openssl is not executable, fork fails): nothing
\* catches it and it leaves main
encrypt_uncaught ==
  /\ pc = "Encrypting"
  /\ encInvoked' = encInvoked + 1
  /\ pc' = "Crashed"
  /\ stages' = Append(stages, "Crashed")
  /\ exitStatus' = StatusUncaught
  /\ UNCHANGED <<aside, config, clockVars, zipVars, disk, upVars, cpc, archResult,
                 encResult, delLog>>

encrypt_with_openssl ==
  \/ encrypt_ok
  \/ encrypt_tool_missing
  \/ encrypt_cipher_error
  \/ encrypt_uncaught

\* ------------------------------------------------- main, lines 106-110

main_106 ==
  /\ pc = "EncryptReturned"
  /\ IF encResult = <<TRUE>>
       THEN /\ pc' = "Uploading"
            /\ stages' = Append(stages, "Uploading")
       ELSE /\ pc' = "EncryptFailed"
            /\ stages' = stages
  /\ UNCHANGED <<aside, config, clockVars, zipVars, disk, upVars, cpc, archResult,
                 encResult, encInvoked, delLog, exitStatus>>

\* a main that returns after a failed encryption without removing the zip
encrypt_failure_removals_none == {}

\* the paths main removes on the encryption-failure path (lines 108-109)
encrypt_failure_removals == {zip_filename}

\* lines 108-110: the zip is removed if it exists, then main returns
main_108_removed ==
  /\ pc = "EncryptFailed"
  /\ LET doomed == encrypt_failure_removals \cap disk
     IN  /\ disk' = disk \ doomed
         /\ delLog' = IF zip_filename \in doomed
                        THEN Append(delLog, [file |-> zip_filename, ok |-> TRUE])
                        ELSE delLog
  /\ pc' = "Aborted"
  /\ stages' = Append(stages, "Aborted")
  /\ exitStatus' = StatusReturned
  /\ UNCHANGED <<aside, config, clockVars, zipVars, upVars, cpc, archResult,
                 encResult, encInvoked>>

\* line 109: os.remove raises OSError; the statement is in no try block, so
\* the exception leaves main
main_109_error ==
  /\ pc = "EncryptFailed"
  /\ zip_filename \in disk
  /\ delLog' = Append(delLog, [file |-> zip_filename, ok |-> FALSE])
  /\ pc' = "Crashed"
  /\ stages' = Append(stages, "Crashed")
  /\ exitStatus' = StatusUncaught
  /\ UNCHANGED <<aside, config, clockVars, zipVars, disk, upVars, cpc, archResult,
                 encResult, encInvoked>>

\* ----------------------------------------- upload_to_webdav, lines 71-91

\* line 113: main calls upload_to_webdav for the next server of the list
upload_call ==
  /\ pc = "Uploading" /\ upc = "idle"
  /\ server_idx <= Len(WEBDAV_SERVERS)
  /\ attempts' = Append(attempts, [server |-> server_idx, file |-> upload_argument])
  /\ upc' = "construct"
  /\ UNCHANGED <<aside, config, clockVars, pc, zipVars, disk, remote, server_idx,
                 outcomes, cpc, archResult, encResult, encInvoked, delLog,
                 stages, exitStatus>>

\* lines 73-80 with a well-formed server configuration
client_constructed ==
  /\ pc = "Uploading" /\ upc = "construct"
  /\ WEBDAV_SERVERS[server_idx] = "ok"
  /\ upc' = "check"
  /\ UNCHANGED <<aside, config, clockVars, pc, zipVars, disk, remote, server_idx,
                 attempts, outcomes, cpc, archResult, encResult, encInvoked,
                 delLog, stages, exitStatus>>

\* lines 73-78 raise (a key is missing from the server configuration, Client
\* rejects the options): the statements precede the try of line 83, so the
\* exception leaves upload_to_webdav and main
client_construct_raises ==
  /\ pc = "Uploading" /\ upc = "construct"
  /\ WEBDAV_SERVERS[server_idx] = "malformed"
  /\ outcomes' = Append(outcomes, "raised")
  /\ pc' = "Crashed"
  /\ stages' = Append(stages, "Crashed")
  /\ exitStatus' = StatusUncaught
  /\ UNCHANGED <<aside, config, clockVars, zipVars, disk, remote, server_idx, upc,
                 attempts, cpc, archResult, encResult, encInvoked, delLog>>

\* a check-then-create step that creates without looking at the check
needs_mkdir_always(r) == TRUE

\* line 84: the directory is created when client.check answers that it does
\* not exist
needs_mkdir(r) == ~r.dir

\* line 85: client.mkdir sends one creation request, after which the
\* directory exists
mkdir_effect(r) == [r EXCEPT !.dir = TRUE, !.mkdirs = @ + 1]

\* lines 84-85 performed without failure on a remote in state r
ensure_directory(r) == IF needs_mkdir(r) THEN mkdir_effect(r) ELSE r

\* line 84: client.check answers whether the remote directory exists
client_check ==
  /\ pc = "Uploading" /\ upc = "check"
  /\ upc' = IF needs_mkdir(remote[server_idx]) THEN "mkdir" ELSE "upload"
  /\ UNCHANGED <<aside, config, clockVars, pc, zipVars, disk, remote, server_idx,
                 attempts, outcomes, cpc, archResult, encResult, encInvoked,
                 delLog, stages, exitStatus>>

\* between lines 84 and 85 another client of the server creates the
\* directory that client.check has just reported absent
other_party_mkdir ==
  /\ pc = "Uploading" /\ upc = "mkdir"
  /\ ~remote[server_idx].dir
  /\ remote' = [remote EXCEPT ![server_idx].dir = TRUE,
                                ![server_idx].raced = TRUE]
  /\ UNCHANGED <<aside, config, clockVars, pc, zipVars, disk, server_idx, upc,
                 attempts, outcomes, cpc, archResult, encResult, encInvoked,
                 delLog, stages, exitStatus>>

\* lines 85-86: client.mkdir returns and the remote directory exists.  When
\* the directory exists already the server refuses the request; whether
\* client.mkdir then returns or raises is the library's choice, and the
\* raise is part of upload_exception.
client_mkdir ==
  /\ pc = "Uploading" /\ upc = "mkdir"
  /\ remote' = [remote EXCEPT ![server_idx] = mkdir_effect(@)]
  /\ upc' = "upload"
  /\ UNCHANGED <<aside, config, clockVars, pc, zipVars, disk, server_idx, attempts,
                 outcomes, cpc, archResult, encResult, encInvoked, delLog,
                 stages, exitStatus>>

\* lines 88-89: client.upload transfers the local file, then the call returns
client_upload ==
  /\ pc = "Uploading" /\ upc = "upload"
  /\ attempts[Len(attempts)].file \in disk
  /\ remote' = [remote EXCEPT ![server_idx].files =
                  @ \cup {remote_path(attempts[Len(attempts)].file)},
                                ![server_idx].puts = @ + 1]
  /\ outcomes' = Append(outcomes, "uploaded")
  /\ upc' = "idle"
  /\ server_idx' = server_idx + 1
  /\ UNCHANGED <<aside, config, clockVars, pc, zipVars, disk, attempts, cpc,
                 archResult, encResult, encInvoked, delLog, stages, exitStatus>>

\* lines 90-91: check, mkdir or upload raises; the exception is caught and
\* printed, and the call returns
upload_exception ==
  /\ pc = "Uploading" /\ upc \in {"check", "mkdir", "upload"}
  /\ remote' = [remote EXCEPT
                  ![server_idx].mkdirs = IF upc = "mkdir" THEN @ + 1 ELSE @,
                  ![server_idx].puts = IF upc = "upload" THEN @ + 1 ELSE @]
  /\ outcomes' = Append(outcomes, "failed")
  /\ upc' = "idle"
  /\ server_idx' = server_idx + 1
  /\ UNCHANGED <<aside, config, clockVars, pc, zipVars, disk, attempts, cpc,
                 archResult, encResult, encInvoked, delLog, stages, exitStatus>>

upload_to_webdav ==
  \/ upload_call
  \/ client_constructed
  \/ client_construct_raises
  \/ client_check
  \/ client_mkdir
  \/ client_upload
  \/ upload_exception

\* ------------------------------------------------- main, lines 112-126

\* line 112: the loop over WEBDAV_SERVERS is exhausted
main_112_exit ==
  /\ pc = "Uploading" /\ upc = "idle"
  /\ server_idx > Len(WEBDAV_SERVERS)
  /\ pc' = "CleaningUp"
  /\ cpc' = "zip"
  /\ stages' = Append(stages, "CleaningUp")
  /\ UNCHANGED <<aside, config, clockVars, zipVars, disk, upVars, archResult,
                 encResult, encInvoked, delLog, exitStatus>>

\* where the cleanup block continues after os.remove(zip_filename) raised
\* OSError at line 119: the handler of lines 125-126, past line 121
after_zip_remove_error == "except"

\* lines 118-120: the zip is removed if it exists
main_118 ==
  /\ pc = "CleaningUp" /\ cpc = "zip"
  /\ IF zip_filename \in disk
       THEN /\ disk' = disk \ {zip_filename}
            /\ delLog' = Append(delLog, [file |-> zip_filename, ok |-> TRUE])
       ELSE UNCHANGED <<disk, delLog>>
  /\ cpc' = "enc"
  /\ UNCHANGED <<aside, config, clockVars, pc, zipVars, upVars, archResult,
                 encResult, encInvoked, stages, exitStatus>>

\* line 119 raises OSError
main_119_error ==
  /\ pc = "CleaningUp" /\ cpc = "zip"
  /\ zip_filename \in disk
  /\ delLog' = Append(delLog, [file |-> zip_filename, ok |-> FALSE])
  /\ IF after_zip_remove_error = "except"
       THEN /\ pc' = "Done"
            /\ stages' = Append(stages, "Done")
            /\ exitStatus' = StatusReturned
            /\ cpc' = cpc
       ELSE /\ cpc' = "enc"
            /\ UNCHANGED <<pc, stages, exitStatus>>
  /\ UNCHANGED <<aside, config, clockVars, zipVars, disk, upVars, archResult,
                 encResult, encInvoked>>

\* lines 121-124: the encrypted file is removed if it exists; main returns
main_121 ==
  /\ pc = "CleaningUp" /\ cpc = "enc"
  /\ IF encrypted_filename \in disk
       THEN /\ disk' = disk \ {encrypted_filename}
            /\ delLog' = Append(delLog, [file |-> encrypted_filename, ok |-> TRUE])
       ELSE UNCHANGED <<disk, delLog>>
  /\ pc' = "Done"
  /\ stages' = Append(stages, "Done")
  /\ exitStatus' = StatusReturned
  /\ UNCHANGED <<aside, config, clockVars, zipVars, upVars, cpc, archResult,
                 encResult, encInvoked>>

\* line 122 raises OSError: lines 125-126 print it; main returns
main_122_error ==
  /\ pc = "CleaningUp" /\ cpc = "enc"
  /\ encrypted_filename \in disk
  /\ delLog' = Append(delLog, [file |-> encrypted_filename, ok |-> FALSE])
  /\ pc' = "Done"
  /\ stages' = Append(stages, "Done")
  /\ exitStatus' = StatusReturned
  /\ UNCHANGED <<aside, config, clockVars, zipVars, disk, upVars, cpc, archResult,
                 encResult, encInvoked>>

main ==
  \/ main_timestamp
  \/ main_remote_dir_name
  \/ create_unencrypted_zip
  \/ main_103
  \/ encrypt_with_openssl
  \/ main_106
  \/ main_108_removed
  \/ main_109_error
  \/ upload_to_webdav
  \/ main_112_exit
  \/ main_118
  \/ main_119_error
  \/ main_121
  \/ main_122_error

Next == main \/ Tick \/ other_party_mkdir

Spec == Init /\ [][Next]_vars

\* every call returns or raises in finite time, so the interpreter always
\* takes its next step
FairSpec == Spec /\ WF_vars(main)

\* ------------------------------------------------------------- helpers

DeletionFailed(f) == \E k \in 1..Len(delLog) : delLog[k].file = f /\ ~delLog[k].ok
DeletionDone(f) == \E k \in 1..Len(delLog) : delLog[k].file = f /\ delLog[k].ok
ArchiveFailed == archResult = <<FALSE>>
EncryptFailed == archResult = <<TRUE>> /\ encResult = <<FALSE>>
BothSucceeded == archResult = <<TRUE>> /\ encResult = <<TRUE>>
AllItems == 1..Len(SOURCE_ITEMS)

\* ---------------------------------------------------------------- claims

\* C1: once create_unencrypted_zip has reported failure, encrypt_with_openssl
\* is never invoked, no file exists at the encrypted-artifact path and
\* upload_to_webdav has been invoked for no destination.
C1_NoEncryptNoUploadAfterZipFailure ==
  ArchiveFailed =>
    /\ encInvoked = 0
    /\ encrypted_filename \notin disk
    /\ attempts = <<>>
    /\ pc \in {"ArchiveReturned", "Aborted"}

\* C1 witness: a run aborted by a write error after the container was opened
C1_Witness ==
  /\ ArchiveFailed /\ pc = "Aborted"
  /\ zf = "closed" /\ zip_filename \in disk

\* C2 as stated: after a failed encryption no upload is attempted and, once
\* the run has ended, the archive is gone from the local disk.
C2_Original ==
  EncryptFailed =>
    /\ attempts = <<>>
    /\ pc \in Terminal => zip_filename \notin disk

\* C2 amended: after a failed encryption no upload is attempted, the run
\* terminates, and in the terminal state the archive is gone from the local
\* disk unless the attempt to remove it failed.
C2_NoUploadArchiveRemovedUnlessRemoveFails ==
  /\ [](EncryptFailed => attempts = <<>> /\ server_idx = 1)
  /\ [](EncryptFailed /\ pc \in Terminal =>
          \/ zip_filename \notin disk /\ DeletionDone(zip_filename)
          \/ zip_filename \in disk /\ DeletionFailed(zip_filename))
  /\ (EncryptFailed ~> pc \in Terminal)

\* C2 witness: the encryption failed, the zip was removed, the run aborted
C2_Witness ==
  /\ EncryptFailed /\ pc = "Aborted"
  /\ zip_filename \notin disk /\ DeletionDone(zip_filename)
  /\ attempts = <<>>

\* C3: whichever stage fails, no file exists at the archive path once the run
\* has ended, also when archiving fails after the container was opened.
C3_NoArchiveLeftBehind ==
  pc \in {"Done", "Aborted"} /\ ~DeletionFailed(zip_filename) =>
    zip_filename \notin disk

\* C4: once archiving and encryption both succeeded, the run ends only after
\* upload_to_webdav was invoked for every destination and the cleanup step
\* was entered, whatever the per-destination outcomes.
C4_CleanupAlwaysEntered ==
  BothSucceeded /\ pc \in Terminal =>
    /\ Len(attempts) = Len(WEBDAV_SERVERS)
    /\ \E k \in 1..Len(stages) : stages[k] = "CleaningUp"
    /\ pc = "Done"

\* C5: when the upload stage is reached, every configured destination is
\* attempted exactly once, in the configured order; a failure at one
\* destination neither stops the later ones nor is retried.
C5_EveryDestinationOnceInOrder ==
  /\ \A k \in 1..Len(attempts) : attempts[k].server = k
  /\ BothSucceeded /\ pc \in Terminal =>
       [k \in 1..Len(attempts) |-> attempts[k].server] =
         [k \in 1..Len(WEBDAV_SERVERS) |-> k]

\* C6: a run that ends in Aborted yields a non-zero exit status, different
\* from the status of a run that ends in Done.
C6_AbortedExitsNonZero ==
  pc = "Aborted" => exitStatus # <<0>>

\* C7: a failed deletion of a local temporary file is never escalated: the
\* run still ends in Aborted or Done, by a return of main.
C7_DeletionErrorNotEscalated ==
  (\E k \in 1..Len(delLog) : ~delLog[k].ok) /\ pc \in Terminal =>
    pc \in {"Done", "Aborted"} /\ exitStatus = StatusReturned

\* C8: on reaching Done each local artifact is absent unless its own
\* deletion failed.
C8_EachArtifactDeletionAttempted ==
  pc = "Done" =>
    /\ zip_filename \in disk => DeletionFailed(zip_filename)
    /\ encrypted_filename \in disk => DeletionFailed(encrypted_filename)

\* C9: every upload attempt is handed the encrypted artifact, never the
\* plaintext archive, and in a run that reached the upload stage main
\* removes no local artifact before the call for the last configured
\* destination has returned.
C9_OnlyEncryptedUploadedNoEarlyDeletion ==
  /\ \A k \in 1..Len(attempts) :
       /\ attempts[k].file = zip_filename \o <<".enc">>
       /\ attempts[k].file # zip_filename
  /\ BothSucceeded /\ delLog # <<>> =>
       /\ server_idx > Len(WEBDAV_SERVERS)
       /\ Len(outcomes) = Len(WEBDAV_SERVERS)
       /\ upc = "idle"
  /\ pc = "Uploading" => delLog = <<>> /\ {zip_filename, encrypted_filename} \subseteq disk

\* C9 witness: two destinations were attempted, then both files were removed
C9_Witness ==
  /\ pc = "Done" /\ Len(attempts) = MaxServers
  /\ DeletionDone(zip_filename) /\ DeletionDone(encrypted_filename)
  /\ \E k \in 1..Len(outcomes) : outcomes[k] = "uploaded"

\* C10: the archive file exists (complete, hence non-empty) only if every
\* configured source item was added to it; no archive file exists after an
\* archiving attempt in which some item was not added.
C10_ArchiveOnlyIfAllItemsAdded ==
  zip_filename \in disk /\ zf = "closed" => entries = AllItems

\* a stage call raised instead of returning: encrypt_with_openssl (an
\* exception other than the two it catches) or upload_to_webdav (client
\* construction)
StageCallRaised ==
  \/ pc = "Crashed" /\ encInvoked = 1 /\ encResult = <<>>
  \/ \E k \in 1..Len(outcomes) : outcomes[k] = "raised"

\* the stage sequences of the pipeline state machine that end a run
CompleteRuns ==
  { <<"Start", "Archiving", "Aborted">>,
    <<"Start", "Archiving", "Encrypting", "Aborted">>,
    <<"Start", "Archiving", "Encrypting", "Uploading", "CleaningUp", "Done">> }

IsPrefix(s, t) == Len(s) <= Len(t) /\ \A k \in 1..Len(s) : s[k] = t[k]

\* C11: if every stage call returns, the run visits the stages only in the
\* order Start, Archiving, Encrypting, Uploading, CleaningUp, Done, none
\* repeated or skipped, enters Aborted only from Archiving or Encrypting,
\* and ends in exactly one of Done and Aborted.
C11_StagesInOrderEndDoneOrAborted ==
  ~StageCallRaised =>
    /\ \E t \in CompleteRuns : IsPrefix(stages, t)
    /\ pc \in Terminal => pc \in {"Done", "Aborted"} /\ stages \in CompleteRuns

\* ------------------------------------------- two runs in one directory
\* Each run is main() on its path without failures: it reads the clock
\* (line 95), creates the zip (line 29), has openssl create the encrypted
\* file (line 59), and removes both (lines 118-123).  Lines 99-100 fix the
\* paths; nothing else separates the runs.

pipelineVars == <<SOURCE_ITEMS, WEBDAV_SERVERS, timestamp, remote_dir_name, pc,
                  zf, item_idx, entries, disk, remote, server_idx, upc, cpc,
                  archResult, encResult, encInvoked, attempts, outcomes,
                  delLog, stages, exitStatus>>

run_paths(r) == {zip_name(runs[r].ts), enc_name(zip_name(runs[r].ts))}

owned_by_other(r, path) == \E f \in cwd : f.path = path /\ f.owner # r

\* the directory after run r wrote path: an existing file is replaced
write_file(r, path) == {f \in cwd : f.path # path} \cup {[path |-> path, owner |-> r]}

\* line 95
run_timestamp(r) ==
  /\ runs[r].rpc = "Start"
  /\ runs' = [runs EXCEPT ![r] = [rpc |-> "Archiving", tick |-> now,
                                  ts |-> <<strftime_seconds(now)>>]]
  /\ UNCHANGED <<cwd, clobbered, now, pipelineVars, nameVars>>

\* line 29: ZipFile(zip_filename, 'w') creates or truncates the file
run_zip(r) ==
  /\ runs[r].rpc = "Archiving"
  /\ cwd' = write_file(r, zip_name(runs[r].ts))
  /\ clobbered' = (clobbered \/ owned_by_other(r, zip_name(runs[r].ts)))
  /\ runs' = [runs EXCEPT ![r].rpc = "Encrypting"]
  /\ UNCHANGED <<now, pipelineVars, nameVars>>

\* line 59: openssl -out creates or truncates the encrypted file
run_encrypt(r) ==
  /\ runs[r].rpc = "Encrypting"
  /\ cwd' = write_file(r, enc_name(zip_name(runs[r].ts)))
  /\ clobbered' = (clobbered \/ owned_by_other(r, enc_name(zip_name(runs[r].ts))))
  /\ runs' = [runs EXCEPT ![r].rpc = "CleaningUp"]
  /\ UNCHANGED <<now, pipelineVars, nameVars>>

\* lines 118-123: both paths are removed if they exist
run_cleanup(r) ==
  /\ runs[r].rpc = "CleaningUp"
  /\ cwd' = {f \in cwd : f.path \notin run_paths(r)}
  /\ clobbered' = (clobbered \/ \E path \in run_paths(r) : owned_by_other(r, path))
  /\ runs' = [runs EXCEPT ![r].rpc = "Done"]
  /\ UNCHANGED <<now, pipelineVars, nameVars>>

RunsInit == Init /\ SOURCE_ITEMS = <<>> /\ WEBDAV_SERVERS = <<>>

RunsNext ==
  \/ Tick
  \/ \E r \in Runs : run_timestamp(r)
  \/ \E r \in Runs : run_zip(r)
  \/ \E r \in Runs : run_encrypt(r)
  \/ \E r \in Runs : run_cleanup(r)

RunsSpec == RunsInit /\ [][RunsNext]_vars

BothNamed == \A r \in Runs : runs[r].ts # <<>>
SameSecond == runs[1].tick \div TicksPerSecond = runs[2].tick \div TicksPerSecond

\* C12 as stated: the paths of two runs in one working directory never
\* coincide, also for runs started within the same clock second, and no
\* run overwrites or removes a file of the other.
C12_Original ==
  /\ BothNamed => run_paths(1) \cap run_paths(2) = {}
  /\ ~clobbered

\* C12 amended: the paths of two runs that read the clock at line 95 in
\* different clock seconds differ, and such runs never overwrite or remove
\* each other's files; only runs that read the clock within the same second
\* share their paths.
C12_DistinctSecondsDistinctPaths ==
  /\ BothNamed /\ ~SameSecond => run_paths(1) \cap run_paths(2) = {}
  /\ BothNamed /\ SameSecond => run_paths(1) = run_paths(2)
  /\ clobbered => BothNamed /\ SameSecond

\* C12 witness: two runs that started in different seconds both finished,
\* overlapping in time, without touching each other's files
C12_Witness ==
  /\ \A r \in Runs : runs[r].rpc = "Done"
  /\ ~SameSecond /\ ~clobbered /\ cwd = {}

\* ------------------------- entry names of create_unencrypted_zip, 30-40
\* A path is the sequence of its components; a trailing separator shows as
\* a last component "".  The file system is fixed: two files of the same
\* base name in different directories, and a directory tree.

FSFiles == { <<"a", "x">>, <<"b", "x">>, <<"p", "d", "f">>, <<"p", "d", "s", "g">> }

FSDirs == UNION { { SubSeq(f, 1, n) : n \in 0..(Len(f) - 1) } : f \in FSFiles }

\* the spellings a configuration may list: both files, the directory without
\* and with a trailing separator, and a path that does not exist
SourcePaths == { <<"a", "x">>, <<"b", "x">>, <<"p", "d">>, <<"p", "d", "">>, <<"m">> }

\* os.path.normpath: empty components vanish
normpath(p) == SelectSeq(p, LAMBDA c : c # "")

\* os.path.isfile: a path with a trailing separator names no regular file
isfile(p) == p \in FSFiles

\* os.path.isdir
isdir(p) == normpath(p) \in FSDirs

\* os.path.basename: what follows the last separator
basename(p) == IF p = <<>> THEN "" ELSE p[Len(p)]

\* os.path.dirname: what precedes the last separator
dirname(p) == IF p = <<>> THEN <<>> ELSE SubSeq(p, 1, Len(p) - 1)

RECURSIVE common_prefix_len(_, _)
common_prefix_len(p, q) ==
  IF p = <<>> \/ q = <<>> \/ Head(p) # Head(q) THEN 0
  ELSE 1 + common_prefix_len(Tail(p), Tail(q))

\* os.path.relpath(path, start): both are normalised, the common prefix is
\* dropped, one ".." stands for each remaining component of start
relpath(path, start) ==
  LET q == normpath(path)
      s == normpath(start)
      c == common_prefix_len(q, s)
  IN  [k \in 1..(Len(s) - c) |-> ".."] \o SubSeq(q, c + 1, Len(q))

RECURSIVE walk_order(_)
\* the files of a set as a sequence, files of a folder before the files of
\* its subfolders (os.walk is top-down)
walk_order(files) ==
  IF files = {} THEN <<>>
  ELSE LET f == CHOOSE g \in files : \A h \in files : Len(g) <= Len(h)
       IN  <<f>> \o walk_order(files \ {f})

\* os.walk(item) with lines 36-37: the paths of the files under item
walk(item) ==
  walk_order({f \in FSFiles : Len(f) > Len(normpath(item))
                              /\ SubSeq(f, 1, Len(normpath(item))) = normpath(item)})

\* zf.write(item) without the second argument: the stored name is the path
file_arcname_path(item) == item

\* line 32: the stored name of a regular file
file_arcname(item) == <<basename(item)>>

\* line 38: the stored name of a file found under a directory item
dir_arcname(item, file_path) == relpath(file_path, dirname(item))

\* line 31-33
names_add_file ==
  /\ zpos <= Len(zsrc) /\ ~zwalking
  /\ isfile(zsrc[zpos])
  /\ namelist' = Append(namelist, [src |-> zpos, arcname |-> file_arcname(zsrc[zpos])])
  /\ zpos' = zpos + 1
  /\ UNCHANGED <<zsrc, zwalking, zwalk, runVars, now, pipelineVars>>

\* lines 34-35: the walk of a directory item begins
names_walk_start ==
  /\ zpos <= Len(zsrc) /\ ~zwalking
  /\ ~isfile(zsrc[zpos]) /\ isdir(zsrc[zpos])
  /\ zwalking' = TRUE
  /\ zwalk' = walk(zsrc[zpos])
  /\ UNCHANGED <<zsrc, zpos, namelist, runVars, now, pipelineVars>>

\* lines 36-39: the next file of the walk is written
names_walk_file ==
  /\ zwalking /\ zwalk # <<>>
  /\ namelist' = Append(namelist, [src |-> zpos,
                                   arcname |-> dir_arcname(zsrc[zpos], Head(zwalk))])
  /\ zwalk' = Tail(zwalk)
  /\ UNCHANGED <<zsrc, zpos, zwalking, runVars, now, pipelineVars>>

\* line 40: the walk is over
names_walk_end ==
  /\ zwalking /\ zwalk = <<>>
  /\ zwalking' = FALSE
  /\ zpos' = zpos + 1
  /\ UNCHANGED <<zsrc, zwalk, namelist, runVars, now, pipelineVars>>

\* lines 31/34: the item is neither a file nor a directory
names_skip ==
  /\ zpos <= Len(zsrc) /\ ~zwalking
  /\ ~isfile(zsrc[zpos]) /\ ~isdir(zsrc[zpos])
  /\ zpos' = zpos + 1
  /\ UNCHANGED <<zsrc, zwalking, zwalk, namelist, runVars, now, pipelineVars>>

NamesInit ==
  /\ PipelineInit /\ SOURCE_ITEMS = <<>> /\ WEBDAV_SERVERS = <<>> /\ now = 0
  /\ RunsIdle
  /\ zsrc \in SeqsUpTo(SourcePaths, MaxItems)
  /\ zpos = 1
  /\ zwalking = FALSE
  /\ zwalk = <<>>
  /\ namelist = <<>>

NamesNext ==
  \/ names_add_file
  \/ names_walk_start
  \/ names_walk_file
  \/ names_walk_end
  \/ names_skip

NamesSpec == NamesInit /\ [][NamesNext]_vars

NamesDone == zpos > Len(zsrc)
AllRegularFiles == \A k \in 1..Len(zsrc) : isfile(zsrc[k])
EntriesNamed(n) == {k \in 1..Len(namelist) : namelist[k].arcname = n}
FilesWithBase(b) == {k \in 1..Len(zsrc) : basename(zsrc[k]) = b}

\* C13 as stated: for a list of existing regular files the container has one
\* entry per listed file, stored under the base name, and each entry name
\* occurs once, also when two listed files share a base name.
C13_Original ==
  NamesDone /\ AllRegularFiles =>
    /\ Len(namelist) = Len(zsrc)
    /\ \A k \in 1..Len(namelist) : namelist[k].arcname = <<basename(zsrc[k])>>
    /\ \A j, k \in 1..Len(namelist) :
         namelist[j].arcname = namelist[k].arcname => j = k

\* C13 amended: for a list of existing regular files the container has one
\* entry per listed file and no extras, in list order, each stored under
\* the base name of its file; a base name shared by several listed files
\* names as many entries as there are such files.
C13_OneEntryPerFileUnderBaseName ==
  NamesDone /\ AllRegularFiles =>
    /\ Len(namelist) = Len(zsrc)
    /\ \A k \in 1..Len(namelist) :
         /\ namelist[k].src = k
         /\ namelist[k].arcname = <<zsrc[k][Len(zsrc[k])]>>
    /\ \A k \in 1..Len(zsrc) :
         Cardinality(EntriesNamed(<<basename(zsrc[k])>>)) =
           Cardinality(FilesWithBase(basename(zsrc[k])))

\* C13 witness: two listed files of different directories share a base name
C13_Witness ==
  /\ NamesDone
  /\ zsrc = << <<"a", "x">>, <<"b", "x">> >>
  /\ Len(namelist) = 2
  /\ namelist[1].arcname = <<"x">> /\ namelist[2].arcname = <<"x">>

\* C14: for a directory item, written with or without a trailing separator,
\* every file under it is stored under its path relative to the parent of
\* the directory, so the name of the directory is the first component of
\* each of its entries.
C14_DirectoryNameLeadsEntries ==
  /\ \A k \in 1..Len(namelist) :
       LET item == zsrc[namelist[k].src]
           d == normpath(item)
       IN  ~isfile(item) /\ isdir(item) =>
             /\ namelist[k].arcname[1] = d[Len(d)]
             /\ SubSeq(d, 1, Len(d) - 1) \o namelist[k].arcname \in FSFiles
  /\ NamesDone =>
       \A i \in 1..Len(zsrc) :
         ~isfile(zsrc[i]) /\ isdir(zsrc[i]) =>
           Len(walk(zsrc[i])) = Cardinality({k \in 1..Len(namelist) : namelist[k].src = i})

ExistingItems == {k \in 1..Len(SOURCE_ITEMS) : SOURCE_ITEMS[k] # "missing"}

\* C15: a source item that is neither a file nor a directory is passed over
\* without error: create_unencrypted_zip never fails at such an item, it
\* reports success with exactly the existing items in the archive, and the
\* run goes on to encryption and upload, also when every item is missing.
C15_MissingItemsSkipped ==
  /\ ArchiveFailed =>
       \/ zf = "unopened"
       \/ item_idx \in ExistingItems
  /\ archResult = <<TRUE>> =>
       /\ entries = ExistingItems
       /\ item_idx = Len(SOURCE_ITEMS) + 1
       /\ zip_filename \in disk \/ delLog # <<>>
  /\ archResult = <<TRUE>> /\ pc \in {"Aborted", "EncryptFailed"} => encResult = <<FALSE>>
  /\ pc = "Archiving" /\ zf = "open" => entries = ExistingItems \cap 1..(item_idx - 1)

\* C15 witness: every listed item is missing and the encrypted archive was
\* uploaded all the same
C15_Witness ==
  /\ SOURCE_ITEMS = <<"missing", "missing">>
  /\ archResult = <<TRUE>> /\ entries = {}
  /\ \E k \in 1..Len(outcomes) : outcomes[k] = "uploaded"

\* the destinations whose call of upload_to_webdav has returned
Returned == 1..(IF server_idx - 1 < Len(WEBDAV_SERVERS) THEN server_idx - 1
                ELSE Len(WEBDAV_SERVERS))

\* C16: when client.check reports the directory absent and another party
\* creates it before client.mkdir, the failure of the creation is not fatal
\* to the destination: the transfer of the encrypted file is still
\* attempted.
C16_RaceOnMkdirNotFatal ==
  \A i \in Returned : remote[i].raced => remote[i].puts >= 1

\* C17: ensuring the remote directory is idempotent.  Once lines 84-86 have
\* been performed for a destination, performing them again on the same
\* remote path sends no creation request, cannot fail in client.mkdir, and
\* leaves the remote directory as the first performance left it.
C17_EnsureDirectoryIdempotent ==
  /\ pc = "Uploading" /\ upc = "upload" =>
       LET r == remote[server_idx]
       IN  /\ ~needs_mkdir(r)
           /\ ensure_directory(r).mkdirs = r.mkdirs
           /\ ensure_directory(r) = r
  /\ \A i \in DOMAIN remote :
       ensure_directory(ensure_directory(remote[i])) = ensure_directory(remote[i])

\* C17 witness: the first performance found the directory absent and
\* created it
C17_Witness ==
  /\ pc = "Uploading" /\ upc = "upload"
  /\ remote[server_idx].mkdirs = 1 /\ ~remote[server_idx].raced
  /\ remote[server_idx].dir

\* C18: only main removes local files.  encrypt_with_openssl leaves its
\* input file in place whether it succeeds or fails, and upload_to_webdav
\* leaves both local artifacts as they are whether it succeeds or fails.
C18_OnlyMainDeletes ==
  [][ /\ pc = "Encrypting" =>
           /\ zip_filename \in disk'
           /\ disk \subseteq disk'
      /\ pc = "Uploading" /\ pc' \in {"Uploading", "Crashed"} => disk' = disk
      /\ ~(disk \subseteq disk') => pc \in {"EncryptFailed", "CleaningUp"} ]_vars

\* C18 witness: an encryption succeeded, an upload failed and another
\* succeeded, and both local files are still there when the loop ends
C18_Witness ==
  /\ pc = "CleaningUp" /\ cpc = "zip"
  /\ {zip_filename, encrypted_filename} \subseteq disk
  /\ \E k \in 1..Len(outcomes) : outcomes[k] = "failed"
  /\ \E k \in 1..Len(outcomes) : outcomes[k] = "uploaded"

\* the year and month that the archive name backup_<YYYYMMDD_HHMMSS>.zip
\* encodes
month_of_timestamp(ts) == <<ts[1] \div SecondsPerMonth>>

\* C19: within one run the remote directory name <YYYY-MM> equals the year
\* and month encoded in the archive name, whatever the clock shows when the
\* run starts.
C19_RemoteDirMatchesArchiveMonth ==
  remote_dir_name # <<>> => remote_dir_name = month_of_timestamp(timestamp)

====
